---- MODULE Spec2Model ----
(***************************************************************************)
(* Model of the UNICEF CPD PDF downloader (src/app.py, src/app1.py,        *)
(* src/app2.py): the page-scan handler, the download-batch handler, the    *)
(* transport sessions they open and the retry loops they run.              *)
(*                                                                         *)
(* The three files are three variants of one Streamlit script.  `app`      *)
(* selects the variant; it is fixed by Init.  Every network call, browser  *)
(* call and close call is an environment choice (\E) over the outcomes     *)
(* the call can have: a value or a raised exception.                       *)
(***************************************************************************)
EXTENDS Integers, Sequences, FiniteSets, TLC

(***************************************************************************)
(* Program constants                                                       *)
(***************************************************************************)
\* len(UA_POOL)
UA_POOL_LEN == 4
\* fetch_html_hardened(tries=4)
HARDENED_TRIES == 4
\* for attempt in range(3) of download_pdf_smart
SMART_TRIES == 3
\* max_attempts=3 passed by the batch loops of app.py and app1.py
MAX_ATTEMPTS == 3
\* app1.py: "if content-type is odd but body is large, accept anyway"
BODY_THRESHOLD == 1024
\* time.sleep(0.7 + attempt * 0.5) of fetch_html_hardened, in tenths of a second
BACKOFF_BASE == 7
BACKOFF_STEP == 5

(***************************************************************************)
(* Bounds of the model                                                     *)
(***************************************************************************)
\* how many resources (drivers, browsers, contexts) the environment may
\* leave running before it stops failing session set-up
MaxLive == 1
\* how many files a list handed to make_zip on its own holds at most
MaxFiles == 3
\* how many <a href> elements a page handed to the link extraction holds
MaxAnchors == 3
\* how many matches of the PDF URL pattern its raw text holds
MaxTextUrls == 2
\* how many characters a text handed to normalize holds at most
MaxChars == 4

APPS == {"app", "app1", "app2"}

(***************************************************************************)
(* The URL universe.  A URL is an identifier; Basename gives the tokens of *)
(* the basename of its path, the extension being one token.  The order of  *)
(* the identifiers is the lexicographic order of the URL strings.          *)
(*   1  https://h/Docs/en/x.pdf    2  https://h/E/en/x.pdf                 *)
(*   3  https://h/F/en/x_2.pdf     4  https://h/G/doc?f=y.pdf              *)
(*   5  https://h/H/about  (not a PDF link)                                *)
(*   6  https://h/docs/en/x.pdf  (1 but for the case of one letter)        *)
(***************************************************************************)
URLS == 1..6

Basename(u) ==
    CASE u = 1 -> <<"x", ".pdf">>
      [] u = 2 -> <<"x", ".pdf">>
      [] u = 3 -> <<"x", "_", "2", ".pdf">>
      [] u = 4 -> <<"doc">>
      [] u = 6 -> <<"x", ".pdf">>
      [] OTHER -> <<"about">>

\* href.lower().endswith(".pdf")
HrefEndsWithPdf(u) == u \in {1, 2, 3, 4, 6}

\* str.lower() on one token
Lower(tok) == IF tok = ".PDF" THEN ".pdf" ELSE tok

\* name.lower().endswith(".pdf")
EndsWithPdf(name) == Len(name) > 0 /\ Lower(name[Len(name)]) = ".pdf"

safe_filename_from_url(u) ==
    LET name == IF Basename(u) = <<>> THEN <<"document", ".pdf">> ELSE Basename(u)
    IN  IF EndsWithPdf(name) THEN name ELSE name \o <<".pdf">>

(***************************************************************************)
(* Strings the classifier reads character by character: a string is the    *)
(* sequence of its characters.                                             *)
(***************************************************************************)
\* str.lower() on one character
LowerChar(c) ==
    CASE c = "D" -> "d" [] c = "E" -> "e" [] c = "F" -> "f" [] c = "G" -> "g"
      [] c = "N" -> "n" [] c = "P" -> "p" [] c = "R" -> "r" [] c = "B" -> "b"
      [] c = "C" -> "c" [] c = "O" -> "o"
      [] OTHER -> c

\* s.lower()
LowerStr(s) == [k \in 1..Len(s) |-> LowerChar(s[k])]

\* sub in s
Contains(s, sub) ==
    \E k \in 0..(Len(s) - Len(sub)) : SubSeq(s, k + 1, k + Len(sub)) = sub

\* the first place in s of a character of the set cs, 0 if there is none
FindChar(s, cs) ==
    IF \E k \in 1..Len(s) : s[k] \in cs
    THEN CHOOSE k \in 1..Len(s) : s[k] \in cs /\ \A j \in 1..(k - 1) : s[j] \notin cs
    ELSE 0

\* urlparse(href).path: what follows the scheme and the host, up to the
\* query or the fragment
UrlPath(href) ==
    LET sep == <<":", "/", "/">>
        at == IF Contains(href, sep)
              THEN CHOOSE k \in 0..(Len(href) - 3) :
                       /\ SubSeq(href, k + 1, k + 3) = sep
                       /\ \A j \in 0..(k - 1) : SubSeq(href, j + 1, j + 3) # sep
              ELSE 0
        rest == IF Contains(href, sep) THEN SubSeq(href, at + 4, Len(href)) ELSE href
        cut == FindChar(rest, {"/", "?", "#"})
        tail == IF ~Contains(href, sep) THEN rest
                ELSE IF cut = 0 THEN <<>> ELSE SubSeq(rest, cut, Len(rest))
        q == FindChar(tail, {"?", "#"})
    IN  IF q = 0 THEN tail ELSE SubSeq(tail, 1, q - 1)

\* os.path.basename(path): what follows the last "/"
PathBasename(path) ==
    IF \E k \in 1..Len(path) : path[k] = "/"
    THEN LET last == CHOOSE k \in 1..Len(path) :
                         path[k] = "/" /\ \A j \in (k + 1)..Len(path) : path[j] # "/"
         IN  SubSeq(path, last + 1, Len(path))
    ELSE path

\* ("-en.pdf", "_en.pdf", "-eng.pdf", "_eng.pdf")
EN_SUFFIXES == {<<"-", "e", "n", ".", "p", "d", "f">>,
                <<"_", "e", "n", ".", "p", "d", "f">>,
                <<"-", "e", "n", "g", ".", "p", "d", "f">>,
                <<"_", "e", "n", "g", ".", "p", "d", "f">>}

\* ("/en/", "lang=en", "language=en", "locale=en", "english")
EN_TOKENS == {<<"/", "e", "n", "/">>,
              <<"l", "a", "n", "g", "=", "e", "n">>,
              <<"l", "a", "n", "g", "u", "a", "g", "e", "=", "e", "n">>,
              <<"l", "o", "c", "a", "l", "e", "=", "e", "n">>,
              <<"e", "n", "g", "l", "i", "s", "h">>}

\* the character classes [\(\[\s] and [\)\]\s] of the pattern
EN_OPEN == {"(", "[", " "}
EN_CLOSE == {")", "]", " "}

\* re.search(r"[\(\[\s]en[\)\]\s]", s)
SearchEn(s) ==
    \E k \in 1..(Len(s) - 3) :
        s[k] \in EN_OPEN /\ s[k + 1] = "e" /\ s[k + 2] = "n" /\ s[k + 3] \in EN_CLOSE

\* s_low without the call of lower()
CombinedRaw(href, anchor_text) == href \o <<" ">> \o anchor_text

\* s_low = ((href or "") + " " + (anchor_text or "")).lower()
CombinedLower(href, anchor_text) == LowerStr(href \o <<" ">> \o anchor_text)

\* fn = os.path.basename(urlparse(href).path).lower()
LowerBasename(href) == LowerStr(PathBasename(UrlPath(href)))

\* the filename rule: any(sfx in fn for sfx in (...))
FilenameRule(href) == \E sfx \in EN_SUFFIXES : Contains(LowerBasename(href), sfx)

\* the token rule: any(tok in s_low for tok in (...))
TokenRule(href, anchor_text) ==
    \E tok \in EN_TOKENS : Contains(CombinedLower(href, anchor_text), tok)

guess_is_english(href, anchor_text) ==
    IF FilenameRule(href) THEN TRUE
    ELSE IF TokenRule(href, anchor_text) THEN TRUE
    ELSE IF SearchEn(CombinedLower(href, anchor_text)) THEN TRUE
    ELSE FALSE

\* the characters of the URLs of the universe
UrlString(u) ==
    CASE u = 1 -> <<"h", "t", "t", "p", "s", ":", "/", "/", "h", "/", "D", "o", "c", "s", "/", "e", "n", "/", "x", ".", "p", "d", "f">>
      [] u = 2 -> <<"h", "t", "t", "p", "s", ":", "/", "/", "h", "/", "E", "/", "e", "n", "/", "x", ".", "p", "d", "f">>
      [] u = 3 -> <<"h", "t", "t", "p", "s", ":", "/", "/", "h", "/", "F", "/", "e", "n", "/", "x", "_", "2", ".", "p", "d", "f">>
      [] u = 4 -> <<"h", "t", "t", "p", "s", ":", "/", "/", "h", "/", "G", "/", "d", "o", "c", "?", "f", "=", "y", ".", "p", "d", "f">>
      [] u = 6 -> <<"h", "t", "t", "p", "s", ":", "/", "/", "h", "/", "d", "o", "c", "s", "/", "e", "n", "/", "x", ".", "p", "d", "f">>
      [] OTHER -> <<"h", "t", "t", "p", "s", ":", "/", "/", "h", "/", "H", "/", "a", "b", "o", "u", "t">>

\* the links of the universe that guess_is_english takes for English; the
\* anchor texts of its pages hold no "en"
ENGLISH_URLS == {u \in URLS : guess_is_english(UrlString(u), <<>>)}

\* the verdict of guess_is_english on a link of the universe
IsEnglishUrl(u) == u \in ENGLISH_URLS

(***************************************************************************)
(* make_zip: the archive is the sequence of (name, data) entries written.  *)
(***************************************************************************)
\* str(i) for the indices the model reaches
Str(i) == CASE i = 2 -> "2" [] i = 3 -> "3" [] i = 4 -> "4" [] i = 5 -> "5"
            [] i = 6 -> "6" [] i = 7 -> "7" [] i = 8 -> "8" [] OTHER -> "9"

\* z.namelist()
namelist(z) == {z[k].name : k \in 1..Len(z)}

\* re.sub(r"(\.pdf)$", f"_{i}\\1", base, flags=re.I)
ReSubPdf(base, i) ==
    IF EndsWithPdf(base)
    THEN SubSeq(base, 1, Len(base) - 1) \o <<"_", Str(i), base[Len(base)]>>
    ELSE base

\* RenameLoop renaming once, without testing the new name
RenameOnce(base, fn, i, names, fuel) ==
    [done |-> TRUE, fn |-> IF fn \notin names THEN fn ELSE ReSubPdf(base, i)]

\* the while loop of make_zip; fuel bounds the iterations the model follows
RECURSIVE RenameLoop(_, _, _, _, _)
RenameLoop(base, fn, i, names, fuel) ==
    IF fn \notin names THEN [done |-> TRUE, fn |-> fn]
    ELSE IF fuel = 0 THEN [done |-> FALSE, fn |-> fn]
    ELSE RenameLoop(base, ReSubPdf(base, i), i + 1, names, fuel - 1)

RECURSIVE ZipWrite(_, _)
ZipWrite(z, file_tuples) ==
    IF file_tuples = <<>> THEN z
    ELSE LET f == Head(file_tuples)
             r == RenameLoop(f.name, f.name, 2, namelist(z), Len(z) + 1)
         IN  ZipWrite(Append(z, [name |-> r.fn, data |-> f.data]), Tail(file_tuples))

make_zip(file_tuples) == ZipWrite(<<>>, file_tuples)

(***************************************************************************)
(* Pages and link extraction                                               *)
(***************************************************************************)
Anchor(u, t) == [href |-> u, text |-> t]

\* what a fetched payload contains: whether the HTML parser accepts it, the
\* <a href> elements in document order, and the matches of the PDF URL
\* pattern in the raw text in order of occurrence
PageTwo   == [dom_ok |-> TRUE,
              anchors |-> <<Anchor(1, "t1"), Anchor(5, "about"), Anchor(2, "t2"), Anchor(1, "t1b")>>,
              text_urls |-> <<1, 2, 1>>]
PageThree == [dom_ok |-> TRUE,
              anchors |-> <<Anchor(1, "t1"), Anchor(2, "t2"), Anchor(3, "t3")>>,
              text_urls |-> <<1, 2, 3>>]
PageText  == [dom_ok |-> TRUE, anchors |-> <<>>, text_urls |-> <<2, 1, 2>>]
PageBad   == [dom_ok |-> FALSE, anchors |-> <<Anchor(4, "t4")>>, text_urls |-> <<4>>]
PageEmpty == [dom_ok |-> TRUE, anchors |-> <<>>, text_urls |-> <<>>]

PAGES == {PageTwo, PageThree, PageText, PageBad, PageEmpty}

\* the loop "for a in soup.find_all('a', href=True)": the PDF links in order
RECURSIVE PdfAnchors(_)
PdfAnchors(as) ==
    IF as = <<>> THEN <<>>
    ELSE IF HrefEndsWithPdf(Head(as).href)
         THEN <<[url |-> Head(as).href, text |-> Head(as).text]>> \o PdfAnchors(Tail(as))
         ELSE PdfAnchors(Tail(as))

\* str.lower() on a URL
LowerUrl(u) == IF u = 1 THEN 6 ELSE u

\* DedupFrom comparing the URLs without regard to case
RECURSIVE DedupFromLower(_, _)
DedupFromLower(links, seen) ==
    IF links = <<>> THEN <<>>
    ELSE IF LowerUrl(Head(links).url) \in seen
         THEN DedupFromLower(Tail(links), seen)
         ELSE <<Head(links)>> \o DedupFromLower(Tail(links), seen \cup {LowerUrl(Head(links).url)})

\* the de-dup loop: keep the first pair of every url
RECURSIVE DedupFrom(_, _)
DedupFrom(links, seen) ==
    IF links = <<>> THEN <<>>
    ELSE IF Head(links).url \in seen
         THEN DedupFrom(Tail(links), seen)
         ELSE <<Head(links)>> \o DedupFrom(Tail(links), seen \cup {Head(links).url})

Dedup(links) == DedupFrom(links, {})

\* sorted(set(urls)) paired with empty anchor text
RECURSIVE SortedSet(_)
SortedSet(S) ==
    IF S = {} THEN <<>>
    ELSE LET m == CHOOSE x \in S : \A y \in S : x <= y
         IN  <<[url |-> m, text |-> ""]>> \o SortedSet(S \ {m})

Range(s) == {s[k] : k \in 1..Len(s)}

\* parse_pdf_links without the scan of the raw text
parse_pdf_links_dom_only(html) ==
    IF html.dom_ok THEN Dedup(PdfAnchors(html.anchors)) ELSE <<>>

\* app2.py parse_pdf_links
parse_pdf_links(html) ==
    LET links == IF html.dom_ok THEN PdfAnchors(html.anchors) ELSE <<>>
    IN  IF links # <<>> THEN Dedup(links)
        ELSE SortedSet(Range(html.text_urls))

\* app.py collect_pdf_links_with_session / app1.py collect_pdf_links, after
\* fetch_html returned: the parser's exception is not caught here
links_from_html(html) ==
    IF html.dom_ok THEN [raised |-> FALSE, links |-> Dedup(PdfAnchors(html.anchors))]
    ELSE [raised |-> TRUE, links |-> <<>>]

(***************************************************************************)
(* Values exchanged with the environment                                   *)
(***************************************************************************)
\* an exception object: what raised it and in which attempt (0: outside a loop)
Err(msg, at) == [msg |-> msg, at |-> at]
NoErr == Err("", 0)

CTYPES == {"application/pdf", "application/octet-stream", "", "text/html"}
LENS == {0, BODY_THRESHOLD, BODY_THRESHOLD + 1}

\* "application/pdf" in ct or "application/octet-stream" in ct or ct == ""
CtypeAccepted(ct) == ct \in {"application/pdf", "application/octet-stream", ""}

\* the bytes served for url u, of the given length
Body(u, n) == [of |-> u, len |-> n]
NoBody == Body(0, 0)
\* truth value of a bytes object
Truthy(b) == b.len > 0

\* outcomes of a GET for a file: the call raises, or a response arrives
RespRaise == [kind |-> "raise", ok |-> FALSE, ctype |-> "", len |-> 0]
RespNotOk == [kind |-> "resp", ok |-> FALSE, ctype |-> "text/html", len |-> BODY_THRESHOLD]
FILE_RESPONSES ==
    {RespRaise, RespNotOk}
    \cup {[kind |-> "resp", ok |-> TRUE, ctype |-> c, len |-> n] : c \in CTYPES, n \in LENS}

\* outcomes of the click-simulated download: it raises before the
\* temporary directory is made ("raise": expect_download, evaluate), it
\* raises after ("raise_save": save_as, open, read), or it yields the
\* file's bytes; cleaned: os.remove and os.rmdir both succeed
EventRaise == [kind |-> "raise", len |-> 0, cleaned |-> TRUE]
EVENT_OUTCOMES ==
    {EventRaise, [kind |-> "raise_save", len |-> 0, cleaned |-> TRUE]}
    \cup {[kind |-> "data", len |-> n, cleaned |-> c] : n \in LENS, c \in BOOLEAN}

\* whether the call raised
EventRaised(event) == event.kind \in {"raise", "raise_save"}

\* what is left of the temporary directory when the call is over: the
\* removal is the last step before "return data" and is in no finally
TmpAfter(event) ==
    CASE event.kind = "raise" -> "none"
      [] event.kind = "raise_save" -> "left"
      [] OTHER -> IF event.cleaned THEN "removed" ELSE "left"

\* FileRequest going through the mirror service
FileRequestViaMirror(url) == [host |-> "mirror", url |-> url]

\* where a request for a file's bytes is sent: the PDF URL itself
\* (context.request.get(pdf_url), a.href = url, sess.get(pdf_url))
FileRequest(url) == [host |-> "site", url |-> url]

\* outcomes of a page fetch: the call raises, the response is refused
\* (status), the payload is empty or too short, or a payload arrives
PageOut(k, p) == [kind |-> k, page |-> p]
PAGE_OUTCOMES ==
    {PageOut(k, PageEmpty) : k \in {"raise", "not_ok", "empty", "short"}}
    \cup {PageOut("page", p) : p \in PAGES}

(***************************************************************************)
(* Transport sessions: what __enter__ has started when it fails            *)
(***************************************************************************)
Res(p, b, c) == [p |-> p, browser |-> b, ctx |-> c]
NoRes == Res(0, 0, 0)
ResPlus(a, b) == Res(a.p + b.p, a.browser + b.browser, a.ctx + b.ctx)
ResMinus(a, b) == Res(a.p - b.p, a.browser - b.browser, a.ctx - b.ctx)

\* the calls of __enter__ that can raise, in order; "none": __enter__ returns
ENTER_STEPS(variant) ==
    CASE variant = "app"  -> <<"start", "launch", "new_context", "set_headers", "new_page", "goto">>
      [] variant = "app1" -> <<"start", "new_context">>
      [] OTHER            -> <<"start", "launch", "new_context", "set_headers", "new_page">>

ENTER_FAILS(variant) == Range(ENTER_STEPS(variant)) \cup {"none"}

\* resources started by __enter__ before the call `failAt` raised
StartedAt(variant, failAt) ==
    IF variant = "app1"
    THEN CASE failAt = "start"       -> NoRes
           [] failAt = "new_context" -> Res(1, 0, 0)
           [] OTHER                  -> Res(1, 0, 1)
    ELSE CASE failAt = "start"       -> NoRes
           [] failAt = "not_ready"   -> NoRes
           [] failAt = "launch"      -> Res(1, 0, 0)
           [] failAt = "new_context" -> Res(1, 1, 0)
           [] OTHER                  -> Res(1, 1, 1)

\* the close calls of __exit__ that may raise
CLOSE_CALLS == {"ctx", "browser", "p"}

\* which of them raise in one run of __exit__: none, or one (a second one
\* raising changes nothing: every close is still invoked, and an exception
\* leaves __exit__)
CLOSE_RAISES == {{}} \cup {{c} : c \in CLOSE_CALLS}

\* __exit__: close/dispose/stop is invoked on every resource that is set,
\* each in the finally of the one before, so a raising close skips none;
\* the exception of a raising close leaves __exit__
SessionExit(started, raises) ==
    [closed |-> started, raised |-> \E c \in raises : started[c] > 0]

(***************************************************************************)
(* State                                                                   *)
(***************************************************************************)
VARIABLES
    app,                   \* which script runs: "app", "app1" or "app2"
    PLAYWRIGHT_AVAILABLE,  \* app2.py: the import succeeded
    PLAYWRIGHT_READY,      \* app2.py: ensure_playwright_browser()
    pc,                    \* where the running handler is; "idle": none runs
    scan_results,          \* st.session_state.scan_results
    invoked,               \* strategies called by the running or last scan
    net,                   \* which strategies of this scan yield a payload
    hardened_log,          \* requests and delays of fetch_html_hardened in this scan
    ui,                    \* what the last handler showed
    to_download,           \* rows of the running batch
    i,                     \* 1-based index of the row being downloaded
    file_buffers,          \* (fname, content) pairs collected by the batch
    warnings,              \* st.warning("Failed: fname - e") of the batch
    attempted,             \* the rows whose download was called, and how it ended
    archive,               \* entries of the ZIP offered, <<>> if none
    attempt,               \* loop variable of the running retry loop
    last_err,              \* last_err of download_pdf
    dl,                    \* the running download: strategy and requests
    ret,                   \* how the download call that just ended, ended
    live,                  \* started resources whose close was never invoked
    created,               \* sessions created by the running or last handler
    released,              \* sessions exited by the running or last handler
    via,                   \* sessions through which files were requested
    callee,                \* the helper function called on its own, "" if none
    args,                  \* its arguments
    retval,                \* what it returned
    returned,              \* whether it has returned
    frame                  \* its locals, when it is followed statement by statement

cfgvars == <<app, PLAYWRIGHT_AVAILABLE, PLAYWRIGHT_READY>>
scanvars == <<scan_results, invoked, net, hardened_log>>
batchvars == <<to_download, i, file_buffers, warnings, attempted, archive>>
dlvars == <<attempt, last_err, dl, ret>>
resvars == <<live, created, released, via>>
fnvars == <<callee, args, retval, returned, frame>>
scriptvars == <<cfgvars, pc, ui, scanvars, batchvars, dlvars, resvars>>
vars == <<scriptvars, fnvars>>

\* src, html: the strategy and the payload whose links a scan stored
UiScan(result, err, src, html) ==
    [op |-> "scan", result |-> result, err |-> err, src |-> src, html |-> html]
Ui(op, result, err) ==
    [op |-> op, result |-> result, err |-> err, src |-> "", html |-> PageEmpty]

\* whether each strategy of the scan yields a payload when it is called
Net(b, r, h, m) == [browser |-> b, reqapi |-> r, hardened |-> h, mirror |-> m]
NoNet == Net(FALSE, FALSE, FALSE, FALSE)
\* request, click: how the in-context GET and the click-simulated download
\* of the last attempt ended, "none" if the attempt did not make the call;
\* sent: the requests for the file made so far; resp: the last response
\* of the hardened GET, or the response whose body the in-context GET of
\* the browser returned; tmp: the temporary directory of the last click;
\* events: the requests ("get", "click") and the delays ("sleep", "pause")
\* of the call, in the order in which it made them
NoDl == [browser |-> "none", request |-> "none", click |-> "none", uas |-> <<>>,
         recent |-> NoErr, recorded |-> FALSE,
         sent |-> {}, resp |-> RespRaise, tmp |-> "none", events |-> <<>>]
Ret(u, kind, data, err, d, n) ==
    [url |-> u, kind |-> kind, data |-> data, err |-> err, dl |-> d, attempts |-> n]
NoRet == Ret(0, "none", NoBody, NoErr, NoDl, 0)

\* the script before any button was clicked
ScriptInit ==
    /\ app \in APPS
    /\ PLAYWRIGHT_AVAILABLE \in BOOLEAN
    /\ PLAYWRIGHT_READY \in BOOLEAN
    \* ensure_playwright_browser returns False without the import; app.py
    \* and app1.py import playwright unconditionally
    /\ PLAYWRIGHT_READY => PLAYWRIGHT_AVAILABLE
    /\ app # "app2" => PLAYWRIGHT_AVAILABLE /\ PLAYWRIGHT_READY
    /\ pc = "idle"
    /\ scan_results = <<>>
    /\ invoked = <<>>
    /\ net = NoNet
    /\ hardened_log = <<>>
    /\ ui = Ui("none", "none", NoErr)
    /\ to_download = <<>>
    /\ i = 0
    /\ file_buffers = <<>>
    /\ warnings = <<>>
    /\ attempted = <<>>
    /\ archive = <<>>
    /\ attempt = 0
    /\ last_err = NoErr
    /\ dl = NoDl
    /\ ret = NoRet
    /\ live = NoRes
    /\ created = 0
    /\ released = 0
    /\ via = {}

\* the locals of make_zip: at: the statement it is about to run
Frame(at, z, rest, base, fn, n) ==
    [at |-> at, z |-> z, rest |-> rest, base |-> base, fn |-> fn, i |-> n]
NoFrame == Frame("none", <<>>, <<>>, <<>>, <<>>, 0)

\* no helper function is called on its own
NoCall == callee = "" /\ args = <<>> /\ retval = <<>> /\ returned = FALSE /\ frame = NoFrame

Init == ScriptInit /\ NoCall

\* JitterSleep without the delay
NoJitter(events) == events

\* time.sleep(delay_between + random.uniform(...)) at the end of a failed
\* iteration of a retry loop
JitterSleep(events) == Append(events, "sleep")

\* a call that is not made has no outcome: its choice is fixed
Unused(made, choice, fixed) == ~made => choice = fixed

\* the outcomes to choose from for a call: those in S if it is made
OutcomesIf(made, S, fixed) == IF made THEN S ELSE {fixed}

\* the environment fails a session set-up part-way (leaving resources
\* running) only while few resources leak
MayFail(failAt) == failAt \notin {"none", "not_ready", "start"} => live.p < MaxLive

(***************************************************************************)
(* The scan handler                                                        *)
(***************************************************************************)
\* the script reruns from the top: the locals of the previous run are gone
LocalsReset ==
    /\ to_download' = <<>>
    /\ i' = 0
    /\ file_buffers' = <<>>
    /\ warnings' = <<>>
    /\ attempted' = <<>>
    /\ archive' = <<>>
    /\ attempt' = 0
    /\ last_err' = NoErr
    /\ dl' = NoDl
    /\ ret' = NoRet

\* ScanFinish clearing the stored list when the scan raises
ScanFinishClearing(raised, links, err, src, html) ==
    /\ pc' = "idle"
    /\ scan_results' = IF raised THEN <<>> ELSE links
    /\ ui' = IF raised THEN UiScan("error", err, "", PageEmpty)
             ELSE UiScan("success", NoErr, src, html)

\* "try: pdfs = ...; scan_results = pdfs; st.success  except: st.error"
ScanFinish(raised, links, err, src, html) ==
    /\ pc' = "idle"
    /\ scan_results' = IF raised THEN scan_results ELSE links
    /\ ui' = IF raised THEN UiScan("error", err, "", PageEmpty)
             ELSE UiScan("success", NoErr, src, html)

\* outcomes fetch_html can have in app.py (page.goto / page.content) and in
\* app1.py (ctx.get, "if not resp.ok: raise")
FETCH_HTML_OUTCOMES ==
    {o \in PAGE_OUTCOMES :
        o.kind \in (IF app = "app" THEN {"raise", "page"} ELSE {"raise", "not_ok", "page"})}

\* app.py / app1.py: the scan handler, one session around fetch and parse
ScanWithSession ==
    /\ pc = "idle"
    /\ app \in {"app", "app1"}
    /\ \E failAt \in ENTER_FAILS(app) :
       \E fetch \in OutcomesIf(failAt = "none", FETCH_HTML_OUTCOMES, PageOut("raise", PageEmpty)) :
       \E raises \in OutcomesIf(failAt = "none", CLOSE_RAISES, {}) :
        /\ MayFail(failAt)
        /\ Unused(failAt = "none", fetch, PageOut("raise", PageEmpty))
        /\ Unused(failAt = "none", raises, {})
        /\ LET entered == failAt = "none"
               exit == SessionExit(StartedAt(app, "none"), raises)
               exitRaises == exit.raised
               parsed == links_from_html(fetch.page)
               bodyErr == IF fetch.kind # "page" THEN Err("fetch_html", 0)
                          ELSE IF parsed.raised THEN Err("parse", 0)
                          ELSE NoErr
               err == IF ~entered THEN Err(failAt, 0)
                      ELSE IF exitRaises THEN Err("close", 0)
                      ELSE bodyErr
           IN  /\ live' = IF entered
                          THEN ResMinus(ResPlus(live, StartedAt(app, "none")), exit.closed)
                          ELSE ResPlus(live, StartedAt(app, failAt))
               /\ created' = 1
               /\ released' = IF entered THEN 1 ELSE 0
               /\ ScanFinish(err # NoErr, parsed.links, err,
                             IF app = "app" THEN "browser" ELSE "reqapi", fetch.page)
    /\ invoked' = <<IF app = "app" THEN "browser" ELSE "reqapi">>
    /\ net' = NoNet
    /\ hardened_log' = <<>>
    /\ via' = {}
    /\ LocalsReset
    /\ UNCHANGED <<cfgvars, fnvars, fnvars>>

\* UseBrowser with the capability flag ignored
UseBrowserAlways == TRUE

\* app2.py: "if PLAYWRIGHT_READY:" of collect_pdf_links and download_pdf_smart
UseBrowser == PLAYWRIGHT_READY

\* app2.py BrowserSession.__enter__: the outcomes it can have
BROWSER_ENTER_FAILS ==
    IF ~(PLAYWRIGHT_AVAILABLE /\ PLAYWRIGHT_READY) THEN {"not_ready"}
    ELSE ENTER_FAILS("app2")

\* app2.py collect_pdf_links, strategy 1: the browser block returns or
\* raises; without the browser the scan goes on to strategy 2
CollectBrowser ==
    /\ pc = "idle"
    /\ app = "app2"
    /\ IF UseBrowser
       THEN /\ \E failAt \in BROWSER_ENTER_FAILS :
               \E render \in OutcomesIf(failAt = "none", PAGE_OUTCOMES, PageOut("raise", PageEmpty)) :
               \E raises \in OutcomesIf(failAt = "none", CLOSE_RAISES, {}) :
               \E r \in BOOLEAN, h \in BOOLEAN, m \in BOOLEAN :
                /\ r => PLAYWRIGHT_AVAILABLE
                /\ render.kind \in {"raise", "page"}
                /\ MayFail(failAt)
                /\ Unused(failAt = "none", render, PageOut("raise", PageEmpty))
                /\ Unused(failAt = "none", raises, {})
                /\ LET entered == failAt = "none"
                       exit == SessionExit(StartedAt("app2", "none"), raises)
                       exitRaises == exit.raised
                       err == IF ~entered THEN Err(failAt, 0)
                              ELSE IF exitRaises THEN Err("close", 0)
                              ELSE IF render.kind = "raise" THEN Err("render_html", 0)
                              ELSE NoErr
                   IN  /\ live' = IF entered
                                  THEN ResMinus(ResPlus(live, StartedAt("app2", "none")), exit.closed)
                                  ELSE ResPlus(live, StartedAt("app2", failAt))
                       /\ released' = IF entered THEN 1 ELSE 0
                       /\ ScanFinish(err # NoErr, parse_pdf_links(render.page), err,
                                     "browser", render.page)
                       /\ net' = Net(err = NoErr, r, h, m)
            /\ invoked' = <<"browser">>
            /\ created' = 1
       ELSE /\ pc' = "reqapi"
            /\ \E r \in BOOLEAN, h \in BOOLEAN, m \in BOOLEAN :
                /\ r => PLAYWRIGHT_AVAILABLE
                /\ net' = Net(FALSE, r, h, m)
            /\ invoked' = <<>>
            /\ created' = 0
            /\ released' = 0
            /\ UNCHANGED <<live, scan_results, ui>>
    /\ via' = {}
    /\ hardened_log' = <<>>
    /\ LocalsReset
    /\ UNCHANGED <<cfgvars, fnvars, fnvars>>

\* Payload asking for a payload that holds links
PayloadWithLinks(out) == out.kind = "page" /\ parse_pdf_links(out.page) # <<>>

\* "if html:" of collect_pdf_links: the strategy returned a payload
Payload(out) == out.kind = "page"

\* app2.py collect_pdf_links, strategy 2: fetch_html_via_playwright_request_api
\* swallows every exception and returns None unless r.ok
CollectRequestApi ==
    /\ pc = "reqapi"
    /\ invoked' = Append(invoked, "reqapi")
    /\ \E out \in PAGE_OUTCOMES :
        /\ out.kind \in (IF PLAYWRIGHT_AVAILABLE THEN {"raise", "not_ok", "empty", "page"}
                         ELSE {"not_ok"})
        /\ net.reqapi <=> out.kind = "page"
        /\ IF Payload(out)
           THEN /\ ScanFinish(FALSE, parse_pdf_links(out.page), NoErr, "reqapi", out.page)
                /\ UNCHANGED attempt
           ELSE /\ pc' = "hardened"
                /\ attempt' = 0
                /\ UNCHANGED <<scan_results, ui>>
    /\ UNCHANGED <<cfgvars, fnvars, net, hardened_log, batchvars, last_err, dl, ret, resvars>>

\* an entry of the log of fetch_html_hardened: a warm-up GET to a path, the
\* real GET with the index of its user-agent in UA_POOL, or a delay with
\* its length in tenths of a second
HEvent(kind, to, n) == [kind |-> kind, to |-> to, n |-> n]

\* warm_paths as collect_pdf_links passes them
WARM_PATHS == <<"/", "/executiveboard", "/executiveboard/country-programme-documents">>

\* "for wp in warm_paths: try: sess.get(wp) ... except Exception: pass":
\* every path is requested, whichever of the requests (fails) raise
WarmUps(fails) == [k \in 1..Len(WARM_PATHS) |-> HEvent("warm", WARM_PATHS[k], 0)]

\* ua = UA_POOL[attempt % len(UA_POOL)]
HardenedUa(k) == k % UA_POOL_LEN

\* Backoff giving every attempt the same delay
BackoffFlat(k) == BACKOFF_BASE

\* time.sleep(0.7 + attempt * 0.5)
Backoff(k) == BACKOFF_BASE + k * BACKOFF_STEP

\* what the real request of the running attempt of fetch_html_hardened can
\* get; net.hardened: one of the attempts gets the page
HardenedOutcomes ==
    {o \in PAGE_OUTCOMES :
        /\ o.kind = "page" => net.hardened
        /\ net.hardened /\ attempt + 1 = HARDENED_TRIES => o.kind = "page"}

\* app2.py collect_pdf_links, strategy 3: one iteration of the loop of
\* fetch_html_hardened, which makes a fresh requests session; after the
\* last one it returns None and the scan goes on to the mirror
CollectHardenedAttempt ==
    /\ pc = "hardened"
    /\ attempt < HARDENED_TRIES
    /\ invoked' = IF attempt = 0 THEN Append(invoked, "hardened") ELSE invoked
    /\ created' = created + 1
    /\ \E resp \in HardenedOutcomes, fails \in SUBSET (1..Len(WARM_PATHS)) :
        LET sent == hardened_log \o WarmUps(fails)
                        \o <<HEvent("get", "page", HardenedUa(attempt))>>
        IN  IF Payload(resp)
            THEN /\ ScanFinish(FALSE, parse_pdf_links(resp.page), NoErr, "hardened", resp.page)
                 /\ attempt' = 0
                 /\ hardened_log' = sent
            ELSE /\ attempt' = IF attempt + 1 = HARDENED_TRIES THEN 0 ELSE attempt + 1
                 /\ pc' = IF attempt + 1 = HARDENED_TRIES THEN "mirror" ELSE "hardened"
                 /\ hardened_log' = Append(sent, HEvent("sleep", "", Backoff(attempt)))
                 /\ UNCHANGED <<scan_results, ui>>
    /\ UNCHANGED <<cfgvars, fnvars, net, batchvars, last_err, dl, ret, live, released, via>>

\* app2.py collect_pdf_links, strategy 4 and the final raise
CollectMirror ==
    /\ pc = "mirror"
    /\ invoked' = Append(invoked, "mirror")
    /\ \E out \in PAGE_OUTCOMES :
        /\ out.kind \in {"raise", "not_ok", "short", "page"}
        /\ net.mirror <=> out.kind = "page"
        /\ IF Payload(out)
           THEN ScanFinish(FALSE, parse_pdf_links(out.page), NoErr, "mirror", out.page)
           ELSE ScanFinish(TRUE, <<>>, Err("All fetch strategies failed", 0), "", PageEmpty)
    /\ UNCHANGED <<cfgvars, fnvars, net, hardened_log, batchvars, dlvars, resvars>>

(***************************************************************************)
(* The download-batch handler                                              *)
(***************************************************************************)
\* the row built for a scanned link
Row(link) == [url |-> link.url, fname |-> safe_filename_from_url(link.url),
              en |-> IsEnglishUrl(link.url)]

Rows(pdfs) == [k \in 1..Len(pdfs) |-> Row(pdfs[k])]

RowIsEnglish(r) == r.en

\* to_download = english_rows if enforce_english else rows
ToDownload(pdfs, enforce_english) ==
    IF enforce_english THEN SelectSeq(Rows(pdfs), RowIsEnglish) ELSE Rows(pdfs)

\* where the download of one row starts
DownloadPc == IF app = "app2" THEN "smart" ELSE "download"

\* the button "Build ZIP": app.py and app1.py open the one session of the
\* batch (an exception of __enter__ leaves the handler: the try around the
\* with has only a finally); app2.py goes straight to the loop
ClickBuild ==
    /\ pc = "idle"
    /\ scan_results # <<>>
    /\ \E enforce_english \in BOOLEAN, failAt \in ENTER_FAILS(app) :
        LET td == ToDownload(scan_results, enforce_english)
            entered == app = "app2" \/ failAt = "none"
        IN  /\ td # <<>>
            /\ app = "app2" => failAt = "none"
            /\ MayFail(failAt)
            /\ to_download' = td
            /\ i' = IF entered THEN 1 ELSE 0
            /\ pc' = IF entered THEN DownloadPc ELSE "idle"
            /\ ui' = IF entered THEN Ui("batch", "running", NoErr)
                     ELSE Ui("batch", "uncaught", Err(failAt, 0))
            /\ live' = IF app = "app2" THEN live ELSE ResPlus(live, StartedAt(app, failAt))
            /\ created' = IF app = "app2" THEN 0 ELSE 1
    /\ released' = 0
    /\ via' = {}
    /\ invoked' = <<>>
    /\ net' = NoNet
    /\ hardened_log' = <<>>
    /\ file_buffers' = <<>>
    /\ warnings' = <<>>
    /\ attempted' = <<>>
    /\ archive' = <<>>
    /\ attempt' = 0
    /\ last_err' = NoErr
    /\ dl' = NoDl
    /\ ret' = NoRet
    /\ UNCHANGED <<cfgvars, fnvars, scan_results>>

\* FinishFile without the per-file try: a failed download ends the loop
FinishFileAbort(kind, data, err, d, n) ==
    LET r == to_download[i]
    IN  /\ file_buffers' = IF kind = "bytes"
                           THEN Append(file_buffers, [name |-> r.fname, data |-> data])
                           ELSE file_buffers
        /\ warnings' = IF kind = "raise"
                       THEN Append(warnings, [fname |-> r.fname, err |-> err])
                       ELSE warnings
        /\ attempted' = Append(attempted, [url |-> r.url, kind |-> kind])
        /\ ret' = Ret(r.url, kind, data, err, d, n)
        /\ i' = i + 1
        /\ pc' = IF i = Len(to_download) \/ kind = "raise" THEN "end" ELSE DownloadPc
        /\ attempt' = 0
        /\ last_err' = NoErr
        /\ dl' = NoDl

\* one row is over: "file_buffers.append((fname, content))" when the
\* download returned, "except Exception as e: st.warning(...)" when it
\* raised, then the loop goes on to the next row
FinishFile(kind, data, err, d, n) ==
    LET r == to_download[i]
    IN  /\ file_buffers' = IF kind = "bytes"
                           THEN Append(file_buffers, [name |-> r.fname, data |-> data])
                           ELSE file_buffers
        /\ warnings' = IF kind = "raise"
                       THEN Append(warnings, [fname |-> r.fname, err |-> err])
                       ELSE warnings
        /\ attempted' = Append(attempted, [url |-> r.url, kind |-> kind])
        /\ ret' = Ret(r.url, kind, data, err, d, n)
        /\ i' = i + 1
        /\ pc' = IF i = Len(to_download) THEN "end" ELSE DownloadPc
        /\ attempt' = 0
        /\ last_err' = NoErr
        /\ dl' = NoDl

\* app.py DownloadSession.download_pdf: one iteration of the loop
DownloadSession_download_pdf ==
    /\ pc = "download"
    /\ app = "app"
    /\ attempt < MAX_ATTEMPTS
    /\ \E direct \in FILE_RESPONSES :
       \E event \in OutcomesIf(~(direct.kind = "resp" /\ direct.ok /\ CtypeAccepted(direct.ctype)
                                   /\ direct.len > 0),
                                EVENT_OUTCOMES, EventRaise) :
        LET url == to_download[i].url
            k == attempt + 1
            \* _direct_request: the body, or None
            dRaised == direct.kind = "raise"
            dData == IF ~dRaised /\ direct.ok /\ CtypeAccepted(direct.ctype)
                     THEN Body(url, direct.len) ELSE NoBody
            err1 == IF dRaised THEN Err("direct", k) ELSE last_err
            \* _download_via_event
            eRaised == EventRaised(event)
            eData == IF eRaised THEN NoBody ELSE Body(url, event.len)
            err2 == IF eRaised THEN Err("event", k) ELSE err1
            d1 == [dl EXCEPT !.request = IF dRaised THEN "raised"
                                         ELSE IF Truthy(dData) THEN "ok" ELSE "rejected",
                             !.click = "none",
                             !.events = Append(@, "get"),
                             !.sent = @ \cup {FileRequest(url)},
                             !.resp = IF ~dRaised /\ Truthy(dData) THEN direct ELSE RespRaise]
            d2 == [d1 EXCEPT !.click = IF eRaised THEN "raised"
                                       ELSE IF Truthy(eData) THEN "ok" ELSE "empty",
                             !.recent = IF eRaised \/ dRaised THEN err2 ELSE @,
                             !.recorded = err2 # NoErr,
                             !.events = Append(@, "click"),
                             !.tmp = TmpAfter(event)]
        IN  /\ Unused(dRaised \/ ~Truthy(dData), event, EventRaise)
            /\ IF ~dRaised /\ Truthy(dData)
               THEN FinishFile("bytes", dData, NoErr, d1, k)
               ELSE IF ~eRaised /\ Truthy(eData)
               THEN FinishFile("bytes", eData, NoErr, d2, k)
               ELSE /\ attempt' = k
                    /\ last_err' = err2
                    /\ dl' = [d2 EXCEPT !.events = JitterSleep(@)]
                    /\ ret' = NoRet
                    /\ UNCHANGED <<pc, i, file_buffers, warnings, attempted>>
    /\ via' = via \cup {created}
    /\ UNCHANGED <<cfgvars, fnvars, ui, scanvars, to_download, archive, live, created, released>>

\* app1.py HttpSession.download_pdf: one iteration of the loop
HttpSession_download_pdf ==
    /\ pc = "download"
    /\ app = "app1"
    /\ attempt < MAX_ATTEMPTS
    /\ \E resp \in FILE_RESPONSES :
        LET url == to_download[i].url
            k == attempt + 1
            raised == resp.kind = "raise"
            body == Body(url, resp.len)
            accepted == /\ ~raised
                        /\ resp.ok
                        /\ \/ CtypeAccepted(resp.ctype)
                           \/ Truthy(body) /\ resp.len > BODY_THRESHOLD
            e == IF raised THEN Err("get", k) ELSE Err("http", k)
            d1 == [dl EXCEPT !.request = IF raised THEN "raised"
                                         ELSE IF accepted THEN "ok" ELSE "rejected",
                             !.recent = IF accepted THEN @ ELSE e,
                             !.recorded = @ \/ ~accepted,
                             !.events = Append(@, "get"),
                             !.sent = @ \cup {FileRequest(url)}]
        IN  IF accepted
            THEN FinishFile("bytes", body, NoErr, d1, k)
            ELSE /\ attempt' = k
                 /\ last_err' = e
                 /\ dl' = [d1 EXCEPT !.events = JitterSleep(@)]
                 /\ ret' = NoRet
                 /\ UNCHANGED <<pc, i, file_buffers, warnings, attempted>>
    /\ via' = via \cup {created}
    /\ UNCHANGED <<cfgvars, fnvars, ui, scanvars, to_download, archive, live, created, released>>

\* download_pdf after the loop: "if last_err: raise last_err", else the
\* generic error; the batch loop catches it
DownloadPdfExhausted ==
    /\ pc = "download"
    /\ attempt >= MAX_ATTEMPTS
    /\ FinishFile("raise", NoBody,
                  IF last_err # NoErr THEN last_err ELSE Err("Unknown download failure", 0),
                  dl, attempt)
    /\ UNCHANGED <<cfgvars, fnvars, ui, scanvars, to_download, archive, resvars>>

\* app2.py download_pdf_smart, browser branch: a session of its own for
\* this one file; whatever the block returns or raises ends the call.
\* Without the browser the call goes on to the hardened loop.
SmartBrowser ==
    /\ pc = "smart"
    /\ IF UseBrowser
       THEN \E failAt \in BROWSER_ENTER_FAILS :
            \E req \in OutcomesIf(failAt = "none", FILE_RESPONSES, RespRaise) :
            \E raises \in OutcomesIf(failAt = "none", CLOSE_RAISES, {}) :
            \E click \in OutcomesIf(/\ failAt = "none"
                                    /\ req.kind # "raise"
                                    /\ ~(req.ok /\ CtypeAccepted(req.ctype) /\ req.len > 0),
                                    EVENT_OUTCOMES, EventRaise) :
            /\ MayFail(failAt)
            /\ Unused(failAt = "none", req, RespRaise)
            /\ Unused(failAt = "none", raises, {})
            /\ Unused(/\ failAt = "none"
                      /\ req.kind # "raise"
                      /\ ~(req.ok /\ CtypeAccepted(req.ctype) /\ req.len > 0),
                      click, EventRaise)
            /\ LET url == to_download[i].url
                   entered == failAt = "none"
                   exit == SessionExit(StartedAt("app2", "none"), raises)
                   \* request_pdf: the body, or None
                   rRaised == req.kind = "raise"
                   x == IF ~rRaised /\ req.ok /\ CtypeAccepted(req.ctype)
                        THEN Body(url, req.len) ELSE NoBody
                   cRaised == EventRaised(click)
                   clicked == ~rRaised /\ ~Truthy(x)
                   blockErr == IF rRaised THEN Err("request_pdf", 0)
                               ELSE IF clicked /\ cRaised THEN Err("click_download", 0)
                               ELSE NoErr
                   err == IF ~entered THEN Err(failAt, 0)
                          ELSE IF exit.raised THEN Err("close", 0)
                          ELSE blockErr
                   data == IF Truthy(x) THEN x ELSE Body(url, click.len)
                   d1 == [dl EXCEPT
                            !.browser = IF ~entered THEN "enter_failed"
                                        ELSE IF err = NoErr THEN "ok" ELSE "failed",
                            !.request = IF ~entered THEN "none"
                                        ELSE IF rRaised THEN "raised"
                                        ELSE IF Truthy(x) THEN "ok" ELSE "rejected",
                            !.click = IF ~entered \/ ~clicked THEN "none"
                                      ELSE IF cRaised THEN "raised"
                                      ELSE IF click.len > 0 THEN "ok" ELSE "empty",
                            !.recent = err,
                            !.recorded = FALSE,
                            !.sent = IF entered THEN {FileRequest(url)} ELSE {},
                            !.resp = IF Truthy(x) THEN req ELSE RespRaise,
                            \* time.sleep(0.2) between the two sub-paths
                            !.events = IF ~entered THEN <<>>
                                       ELSE IF clicked THEN <<"get", "pause", "click">>
                                       ELSE <<"get">>,
                            !.tmp = IF entered /\ clicked THEN TmpAfter(click) ELSE "none"]
               IN  /\ live' = IF entered
                              THEN ResMinus(ResPlus(live, StartedAt("app2", "none")), exit.closed)
                              ELSE ResPlus(live, StartedAt("app2", failAt))
                   /\ created' = created + 1
                   /\ released' = IF entered THEN released + 1 ELSE released
                   /\ via' = IF entered THEN via \cup {created + 1} ELSE via
                   /\ IF err = NoErr
                      THEN FinishFile("bytes", data, NoErr, d1, 1)
                      ELSE FinishFile("raise", NoBody, err, d1, 1)
       ELSE /\ pc' = "smart_http"
            /\ dl' = [dl EXCEPT !.browser = "skipped"]
            /\ ret' = NoRet
            /\ UNCHANGED <<i, file_buffers, warnings, attempted, attempt, last_err, resvars>>
    /\ UNCHANGED <<cfgvars, fnvars, ui, scanvars, to_download, archive>>

\* app2.py download_pdf_smart, hardened loop: one iteration.  The GET is
\* not inside a try: its exception ends the call.
SmartHttpAttempt ==
    /\ pc = "smart_http"
    /\ attempt < SMART_TRIES
    /\ \E r \in FILE_RESPONSES :
        LET url == to_download[i].url
            k == attempt + 1
            ua == HardenedUa(attempt)
            raised == r.kind = "raise"
            accepted == ~raised /\ r.ok /\ CtypeAccepted(r.ctype)
            d1 == [dl EXCEPT !.uas = Append(@, ua),
                             !.events = Append(@, "get"),
                             !.request = IF raised THEN "raised"
                                         ELSE IF accepted THEN "ok" ELSE "rejected",
                             !.recent = IF raised THEN Err("get", k) ELSE @,
                             !.sent = @ \cup {FileRequest(url)},
                             !.resp = r]
        IN  IF raised THEN FinishFile("raise", NoBody, Err("get", k), d1, k)
            ELSE IF accepted THEN FinishFile("bytes", Body(url, r.len), NoErr, d1, k)
            ELSE /\ attempt' = k
                 /\ dl' = [d1 EXCEPT !.events = JitterSleep(@)]
                 /\ ret' = NoRet
                 /\ UNCHANGED <<pc, i, file_buffers, warnings, attempted, last_err>>
    \* make_session: a fresh requests session per attempt, never closed
    /\ created' = created + 1
    /\ via' = via \cup {created + 1}
    /\ UNCHANGED <<cfgvars, fnvars, ui, scanvars, to_download, archive, live, released>>

\* app2.py download_pdf_smart after the loop
SmartHttpExhausted ==
    /\ pc = "smart_http"
    /\ attempt >= SMART_TRIES
    /\ FinishFile("raise", NoBody, Err("Download blocked or not a PDF", 0), dl, attempt)
    /\ UNCHANGED <<cfgvars, fnvars, ui, scanvars, to_download, archive, resvars>>

\* the end of the batch: the session of app.py / app1.py exits (an
\* exception of __exit__ leaves the handler), then "if file_buffers:" the
\* ZIP is built and offered
BatchEnd ==
    /\ pc = "end"
    /\ \E raises \in (IF app = "app2" THEN {{}} ELSE CLOSE_RAISES) :
        LET exit == IF app = "app2" THEN SessionExit(NoRes, {})
                    ELSE SessionExit(StartedAt(app, "none"), raises)
        IN  /\ live' = ResMinus(live, exit.closed)
            /\ released' = IF app = "app2" THEN released ELSE released + 1
            /\ IF exit.raised
               THEN /\ ui' = Ui("batch", "uncaught", Err("close", 0))
                    /\ archive' = <<>>
               ELSE IF file_buffers # <<>>
               THEN /\ ui' = Ui("batch", "success", NoErr)
                    /\ archive' = make_zip(file_buffers)
               ELSE /\ ui' = Ui("batch", "nozip", NoErr)
                    /\ archive' = <<>>
    /\ pc' = "idle"
    /\ ret' = NoRet
    /\ UNCHANGED <<cfgvars, fnvars, scanvars, to_download, i, file_buffers, warnings, attempted,
                   attempt, last_err, dl, created, via>>

Next ==
    \/ ScanWithSession
    \/ CollectBrowser
    \/ CollectRequestApi
    \/ CollectHardenedAttempt
    \/ CollectMirror
    \/ ClickBuild
    \/ DownloadSession_download_pdf
    \/ HttpSession_download_pdf
    \/ DownloadPdfExhausted
    \/ SmartBrowser
    \/ SmartHttpAttempt
    \/ SmartHttpExhausted
    \/ BatchEnd

Spec == Init /\ [][Next]_vars

TypeOK ==
    /\ app \in APPS
    /\ pc \in {"idle", "reqapi", "hardened", "mirror", "download", "smart", "smart_http", "end"}
    /\ live.p >= 0 /\ live.browser >= 0 /\ live.ctx >= 0
    /\ i \in 0..(Len(to_download) + 1)

(***************************************************************************)
(* The metadata module (year detection, text normalizer), whose source is  *)
(* not among the three scripts: modelled from its specification.           *)
(* A text is a sequence of tokens for detect_year and a sequence of        *)
(* characters for normalize; an accented letter is one character, written  *)
(* with its accent ("o^").                                                 *)
(***************************************************************************)
\* the 4-digit numbers of the texts, and those within 1900-2099
NUMBER_TOKENS == {"1850", "2019", "2020", "2021", "2022"}
YEAR_TOKENS == NUMBER_TOKENS \ {"1850"}
\* what may separate the two years of a range: a dash, a slash, "to"
RANGE_SEPARATORS == {"-", "/", "to"}

NoYear == [kind |-> "none", y1 |-> "", y2 |-> ""]
SingleYear(y) == [kind |-> "single", y1 |-> y, y2 |-> ""]
YearRange(a, b) == [kind |-> "range", y1 |-> a, y2 |-> b]

\* the places of a text where a year range starts
RangesAt(text) ==
    {k \in 1..(Len(text) - 2) :
        text[k] \in YEAR_TOKENS /\ text[k + 1] \in RANGE_SEPARATORS /\ text[k + 2] \in YEAR_TOKENS}

\* the places of a text where a year stands
YearsAt(text) == {k \in 1..Len(text) : text[k] \in YEAR_TOKENS}

Min(S) == CHOOSE x \in S : \A y \in S : x <= y

\* the match of one source: its first range, else its first year
YearIn(text) ==
    IF RangesAt(text) # {}
    THEN LET k == Min(RangesAt(text)) IN YearRange(text[k], text[k + 2])
    ELSE IF YearsAt(text) # {} THEN SingleYear(text[Min(YearsAt(text))])
    ELSE NoYear

\* detect_year looking for a range in every source before any single year
detect_year_range_first(first_pages_text, filename, full_text) ==
    LET sources == <<first_pages_text, filename, full_text>>
        ranged == {k \in 1..3 : RangesAt(sources[k]) # {}}
        hits == {k \in 1..3 : YearIn(sources[k]) # NoYear}
    IN  IF ranged # {} THEN YearIn(sources[Min(ranged)])
        ELSE IF hits # {} THEN YearIn(sources[Min(hits)])
        ELSE NoYear

\* detect_year(first_pages_text, filename, full_text): the match of the
\* first source, in that order, that has one
detect_year(first_pages_text, filename, full_text) ==
    LET sources == <<first_pages_text, filename, full_text>>
        hits == {k \in 1..3 : YearIn(sources[k]) # NoYear}
    IN  IF hits = {} THEN NoYear ELSE YearIn(sources[Min(hits)])

\* Unicode decomposition of one character: the base letter and its accent
Decompose(c) ==
    CASE c = "o^" -> <<"o", "^">> [] c = "O^" -> <<"O", "^">> [] OTHER -> <<c>>

COMBINING_MARKS == {"^"}
NotCombining(c) == c \notin COMBINING_MARKS

\* decompose, then drop the combining marks
RECURSIVE StripDiacritics(_)
StripDiacritics(s) ==
    IF s = <<>> THEN <<>>
    ELSE SelectSeq(Decompose(Head(s)), NotCombining) \o StripDiacritics(Tail(s))

\* SeparatorsToSpaces leaving the separators as they are
SeparatorsKept(s) == s

\* hyphens, slashes, underscores and dots become spaces
NORM_SEPARATORS == {"-", "/", "_", "."}
SeparatorsToSpaces(s) == [k \in 1..Len(s) |-> IF s[k] \in NORM_SEPARATORS THEN " " ELSE s[k]]

\* word characters, the apostrophe and the space are kept
WORD_CHARS == {"c", "o", "C", "O", "0", "1"}
Kept(c) == c \in WORD_CHARS \cup {"'", " "}

\* runs of spaces become one space, the spaces at both ends go
RECURSIVE CollapseSpaces(_)
CollapseSpaces(s) ==
    IF s = <<>> THEN <<>>
    ELSE IF Head(s) = " " THEN
         (IF Tail(s) = <<>> \/ CollapseSpaces(Tail(s)) = <<>> THEN <<>>
          ELSE IF Head(Tail(s)) = " " THEN CollapseSpaces(Tail(s))
          ELSE <<" ">> \o CollapseSpaces(Tail(s)))
    ELSE <<Head(s)>> \o CollapseSpaces(Tail(s))

\* spaces at the start go
RECURSIVE TrimLeft(_)
TrimLeft(s) == IF s # <<>> /\ Head(s) = " " THEN TrimLeft(Tail(s)) ELSE s

\* normalize(text)
normalize(text) ==
    TrimLeft(CollapseSpaces(
        SelectSeq(SeparatorsToSpaces(LowerStr(StripDiacritics(text))), Kept)))

(***************************************************************************)
(* Helper functions called on their own, on arguments drawn from bounded   *)
(* sets.  The script is idle throughout.                                   *)
(***************************************************************************)
\* the script idle, the helper `f` about to be called
CallInit(f) ==
    /\ ScriptInit
    /\ PLAYWRIGHT_READY
    /\ callee = f
    /\ retval = <<>>
    /\ returned = FALSE

\* file names and contents handed to make_zip
ZIP_NAMES == {<<"x", ".pdf">>, <<"x", "_", "2", ".pdf">>, <<"y", ".PDF">>}
ZIP_PAIRS == {[name |-> n, data |-> Body(k, BODY_THRESHOLD + 1)] : n \in ZIP_NAMES, k \in 1..2}
ZIP_INPUTS == UNION {[1..n -> ZIP_PAIRS] : n \in 0..MaxFiles}

\* make_zip is the same function in the three files
ZipInit == CallInit("make_zip") /\ app = "app2" /\ args \in ZIP_INPUTS /\ frame = NoFrame

\* zip_bytes = make_zip(file_tuples)
Call_make_zip ==
    /\ callee = "make_zip"
    /\ ~returned
    /\ retval' = make_zip(args)
    /\ returned' = TRUE
    /\ UNCHANGED <<scriptvars, callee, args, frame>>

ZipNext == Call_make_zip

SpecZip == ZipInit /\ [][ZipNext]_vars

\* make_zip followed statement by statement, on file names of which one
\* does not end in .pdf
MaxIndex == MaxFiles + 3
ZIP_LOOP_NAMES == ZIP_NAMES \cup {<<"a", ".txt">>}
ZIP_LOOP_INPUTS ==
    UNION {[1..n -> {[name |-> nm, data |-> Body(1, BODY_THRESHOLD + 1)] : nm \in ZIP_LOOP_NAMES}] :
               n \in 0..MaxFiles}

ZipLoopInit ==
    /\ CallInit("make_zip")
    /\ app = "app2"
    /\ args \in ZIP_LOOP_INPUTS
    /\ frame = Frame("for", <<>>, args, <<>>, <<>>, 0)

\* "for fname, data in file_tuples: base, i, fn = fname, 2, fname"
make_zip_for ==
    /\ frame.at = "for"
    /\ frame.rest # <<>>
    /\ frame' = [frame EXCEPT !.at = "while", !.base = Head(frame.rest).name,
                               !.fn = Head(frame.rest).name, !.i = 2]
    /\ UNCHANGED <<scriptvars, callee, args, retval, returned>>

\* "while fn in z.namelist(): fn = re.sub(...); i += 1"; i is followed up
\* to MaxIndex, which no name ending in .pdf lets it reach
make_zip_while ==
    /\ frame.at = "while"
    /\ frame.fn \in namelist(frame.z)
    /\ frame' = [frame EXCEPT !.fn = ReSubPdf(frame.base, frame.i),
                               !.i = IF frame.i < MaxIndex THEN frame.i + 1 ELSE frame.i]
    /\ UNCHANGED <<scriptvars, callee, args, retval, returned>>

\* "z.writestr(fn, data)" once the loop is left
make_zip_writestr ==
    /\ frame.at = "while"
    /\ frame.fn \notin namelist(frame.z)
    /\ frame' = [frame EXCEPT !.at = "for",
                               !.z = Append(@, [name |-> frame.fn, data |-> Head(frame.rest).data]),
                               !.rest = Tail(@)]
    /\ UNCHANGED <<scriptvars, callee, args, retval, returned>>

\* "mem.seek(0); return mem.read()"
make_zip_return ==
    /\ frame.at = "for"
    /\ frame.rest = <<>>
    /\ frame' = [frame EXCEPT !.at = "done"]
    /\ retval' = frame.z
    /\ returned' = TRUE
    /\ UNCHANGED <<scriptvars, callee, args>>

ZipLoopNext ==
    \/ make_zip_for
    \/ make_zip_while
    \/ make_zip_writestr
    \/ make_zip_return

\* the function keeps running: no statement waits for anything
SpecZipLoop == ZipLoopInit /\ [][ZipLoopNext]_vars /\ WF_vars(ZipLoopNext)

\* the payloads handed to the link extraction
SeqsUpTo(S, n) == UNION {[1..m -> S] : m \in 0..n}
LINK_ANCHORS == {Anchor(u, t) : u \in {1, 5, 6}, t \in {"t", "u"}}
LINK_PAGES ==
    {[dom_ok |-> d, anchors |-> as, text_urls |-> tu] :
        d \in BOOLEAN, as \in SeqsUpTo(LINK_ANCHORS, MaxAnchors),
        tu \in SeqsUpTo({1, 2, 6}, MaxTextUrls)}

LinksInit == CallInit("links") /\ args \in LINK_PAGES /\ frame = NoFrame

\* app2.py: parse_pdf_links(html, page_url); app.py and app1.py: the part
\* of collect_pdf_links after fetch_html
Call_links ==
    /\ callee = "links"
    /\ ~returned
    /\ retval' = IF app = "app2"
                 THEN [raised |-> FALSE, links |-> parse_pdf_links(args)]
                 ELSE links_from_html(args)
    /\ returned' = TRUE
    /\ UNCHANGED <<scriptvars, callee, args, frame>>

LinksNext == Call_links

SpecLinks == LinksInit /\ [][LinksNext]_vars

\* the hrefs and anchor texts handed to the classifier: an href is
\* https://h/ <directory> doc <marker> <extension> <rest> <query>
HREF_HOST == <<"h", "t", "t", "p", "s", ":", "/", "/", "h", "/">>
HREF_DIRS == {<<>>,
             <<"e", "n", "/">>,
             <<"l", "e", "n", "/">>}
HREF_STEM == <<"d", "o", "c">>
HREF_MARKERS == {<<>>,
                <<"-", "e", "n">>,
                <<"_", "E", "N">>,
                <<"-", "e", "n", "g">>,
                <<"_", "e", "n", "g">>,
                <<"e", "n">>}
HREF_EXTS == {<<".", "p", "d", "f">>,
             <<".", "P", "D", "F">>}
HREF_RESTS == {<<>>,
              <<".", "o", "l", "d", ".", "p", "d", "f">>,
              <<"x">>}
HREF_QUERIES == {<<>>,
                <<"?", "l", "a", "n", "g", "=", "e", "n">>,
                <<"?", "v", "=", "-", "e", "n", ".", "p", "d", "f">>}
EN_HREFS ==
    {HREF_HOST \o d \o HREF_STEM \o m \o e \o r \o qy :
        d \in HREF_DIRS, m \in HREF_MARKERS, e \in HREF_EXTS,
        r \in HREF_RESTS, qy \in HREF_QUERIES}
EN_TEXTS == {<<>>,
            <<"R", "e", "p", "o", "r", "t", " ", "(", "E", "N", ")">>,
            <<"E", "n", "g", "l", "a", "n", "d", " ", "r", "e", "p", "o", "r", "t">>,
            <<"R", "e", "p", "o", "r", "t", " ", "E", "N">>,
            <<"E", "N", " ", "r", "e", "p", "o", "r", "t">>,
            <<"[", "e", "n", "]">>,
            <<"E", "n", "g", "l", "i", "s", "h">>,
            <<"(", "e", "n", "-", "G", "B", ")">>}

EnglishInit ==
    /\ CallInit("guess_is_english")
    /\ app = "app2"
    /\ args \in [href : EN_HREFS, text : EN_TEXTS]
    /\ frame = NoFrame

\* is_en = guess_is_english(href, text)
Call_guess_is_english ==
    /\ callee = "guess_is_english"
    /\ ~returned
    /\ retval' = guess_is_english(args.href, args.text)
    /\ returned' = TRUE
    /\ UNCHANGED <<scriptvars, callee, args, frame>>

EnglishNext == Call_guess_is_english

SpecEnglish == EnglishInit /\ [][EnglishNext]_vars

\* the texts handed to detect_year
YEAR_TEXTS == {<<>>,
               <<"w">>,
               <<"Draft", "CPD", "2019">>,
               <<"report", "_", "2020", "-", "2022", ".pdf">>,
               <<"2021">>,
               <<"2019", "w", "2020", "to", "2022">>,
               <<"1850">>,
               <<"1850", "-", "2019">>,
               <<"2020", "w", "2022">>,
               <<"2020", "/", "2021", "w">>}

YearInit ==
    /\ CallInit("detect_year")
    /\ app = "app2"
    /\ args \in [first_pages_text : YEAR_TEXTS, filename : YEAR_TEXTS, full_text : YEAR_TEXTS]
    /\ frame = NoFrame

Call_detect_year ==
    /\ callee = "detect_year"
    /\ ~returned
    /\ retval' = detect_year(args.first_pages_text, args.filename, args.full_text)
    /\ returned' = TRUE
    /\ UNCHANGED <<scriptvars, callee, args, frame>>

YearNext == Call_detect_year

SpecYear == YearInit /\ [][YearNext]_vars

\* the characters of the texts handed to normalize, and for each the
\* characters that differ from it only in case, accent or kind of separator
NORM_CHARS == {"c", "C", "o^", "-", " ", "'", "!"}
Variants(c) ==
    CASE c \in {"c", "C"} -> <<"c", "C">>
      [] c \in {"o", "o^"} -> <<"o", "o^", "O^">>
      [] c \in {"-", "_", " "} -> <<"-", "_", " ">>
      [] OTHER -> <<c>>
Variant(c, n) == Variants(c)[((n - 1) % Len(Variants(c))) + 1]

NORM_TEXTS == SeqsUpTo(NORM_CHARS, MaxChars)

\* x: any text; y: x with characters replaced by variants
NormalizeInit ==
    /\ CallInit("normalize")
    /\ app = "app2"
    /\ \E x \in NORM_TEXTS : \E v \in [1..Len(x) -> 1..3] :
          args = [x |-> x, y |-> [k \in 1..Len(x) |-> Variant(x[k], v[k])]]
    /\ frame = NoFrame

\* normalize called on x, on its own result, and on y
Call_normalize ==
    /\ callee = "normalize"
    /\ ~returned
    /\ retval' = [x |-> normalize(args.x), xx |-> normalize(normalize(args.x)),
                  y |-> normalize(args.y)]
    /\ returned' = TRUE
    /\ UNCHANGED <<scriptvars, callee, args, frame>>

NormalizeNext == Call_normalize

SpecNormalize == NormalizeInit /\ [][NormalizeNext]_vars

(***************************************************************************)
(* Properties                                                              *)
(***************************************************************************)
\* the scan handler has run to its end
ScanEnded == pc = "idle" /\ ui.op = "scan"

\* the batch handler has run to its end without an uncaught exception
BatchEnded == pc = "idle" /\ ui.op = "batch" /\ ui.result \in {"success", "nozip"}

SeqOf(s, Field(_)) == [k \in 1..Len(s) |-> Field(s[k])]
UrlOf(r) == r.url
NameOf(r) == r.name
Returned(a) == a.kind = "bytes"
Raised(a) == a.kind = "raise"

\* C1: a scan of app2.py in which the Browser Session and the Request
\* Context strategies yield no payload and the Hardened Direct HTTP strategy
\* yields one ends with the links parsed from the hardened payload, and the
\* mirror is not called.
C1_FallbackToHardened ==
    (app = "app2" /\ ScanEnded /\ ~net.browser /\ ~net.reqapi /\ net.hardened)
        => /\ ui.result = "success"
           /\ ui.src = "hardened"
           /\ scan_results = parse_pdf_links(ui.html)
           /\ "mirror" \notin Range(invoked)

\* C2: when download_pdf_smart ends in failure after the browser strategy
\* failed in both sub-paths (the in-context request rejected or raised, the
\* click-simulation raised or never reached), the hardened GET was
\* attempted for that url, with user-agents cycling over the pool.
C2_FallbackToHardenedGet ==
    (/\ app = "app2"
     /\ ret.kind = "raise"
     /\ ret.dl.browser = "failed"
     /\ \/ ret.dl.request = "rejected" /\ ret.dl.click = "raised"
        \/ ret.dl.request = "raised")
        => /\ ret.dl.uas # <<>>
           /\ \A k \in 1..Len(ret.dl.uas) : ret.dl.uas[k] = (k - 1) % UA_POOL_LEN

\* C3: when a handler is over, every context, browser and driver that a
\* session started has had its close/stop invoked.
C3_TeardownGuaranteed == pc = "idle" => live = NoRes

\* C4: a download batch that ran to its end created exactly one session,
\* requested every file through it and released it once.
C4_OneSessionPerBatch ==
    BatchEnded => created = 1 /\ released = 1 /\ via = {1}

\* C5: when a batch has run to its end, every row was attempted in batch
\* order, the archive holds exactly one entry per row whose download
\* returned (in batch order, under distinct names) and none for the others,
\* and there is one warning per failed row, carrying that row's file name.
C5_PartialBatchResilience ==
    BatchEnded =>
        LET ok == SelectSeq(attempted, Returned)
            bad == SelectSeq(attempted, Raised)
        IN  /\ SeqOf(attempted, UrlOf) = SeqOf(to_download, UrlOf)
            /\ Len(archive) = Len(ok)
            /\ \A k \in 1..Len(ok) : archive[k].data.of = ok[k].url
            /\ Cardinality(namelist(archive)) = Len(archive)
            /\ Len(warnings) = Len(bad)
            /\ \A k \in 1..Len(bad) : warnings[k].fname = safe_filename_from_url(bad[k].url)

\* C5 witness: a batch of three rows of which the second failed ended with
\* an archive of two entries
C5_Witness ==
    /\ BatchEnded
    /\ Len(to_download) = 3
    /\ SeqOf(attempted, Returned) = <<TRUE, FALSE, TRUE>>
    /\ Len(archive) = 2
    /\ Len(warnings) = 1

\* C6: a batch that ends with no file downloaded ends without an uncaught
\* exception, offers no archive and has shown a warning.
C6_FullyFailedBatchNoCrash ==
    (pc = "idle" /\ ui.op = "batch" /\ file_buffers = <<>>)
        => /\ ui.result # "uncaught"
           /\ archive = <<>>
           /\ warnings # <<>>

\* the attempt budget of the retry loop the running variant uses
Budget == IF app = "app2" THEN SMART_TRIES ELSE MAX_ATTEMPTS

\* C7: in a download retry loop, a network exception raised by an attempt
\* reaches the caller only once the attempt budget is used up.
C7_RetriedWithinBudget ==
    (/\ ret.kind = "raise"
     /\ ret.dl.browser \in {"none", "skipped"}
     /\ ret.err.msg \in {"get", "direct", "event"})
        => ret.attempts = Budget

\* C8: download_pdf, when the budget is used up, raises the error of the
\* most recent attempt that recorded one, raises the generic error exactly
\* when no attempt recorded one, and never returns empty bytes.
C8_ExhaustionError ==
    app \in {"app", "app1"} =>
        /\ (ret.kind = "raise" /\ ret.dl.recorded) => ret.err = ret.dl.recent
        /\ ret.kind = "raise" =>
              (ret.err.msg = "Unknown download failure" <=> ~ret.dl.recorded)
        /\ ret.kind = "bytes" => ret.data.len > 0

\* C9: a scan of app2.py in which no strategy yields a payload ends with
\* the error "All fetch strategies failed", and that error is raised only
\* after request context, hardened HTTP and mirror were all called in vain.
C9_AllStrategiesFailed ==
    (app = "app2" /\ ScanEnded) =>
        /\ net = NoNet => (ui.result = "error" /\ ui.err.msg = "All fetch strategies failed")
        /\ ui.err.msg = "All fetch strategies failed" =>
              (net = NoNet /\ {"reqapi", "hardened", "mirror"} \subseteq Range(invoked))

\* C10: while PLAYWRIGHT_READY is false, app2.py never constructs a
\* BrowserSession, never reports the missing runtime as an error, and scan
\* and download start with the next strategy.
C10_NoBrowserWithoutRuntime ==
    (app = "app2" /\ ~PLAYWRIGHT_READY) =>
        /\ "browser" \notin Range(invoked)
        /\ dl.browser \in {"none", "skipped"}
        /\ ret.dl.browser \in {"none", "skipped"}
        /\ ui.err.msg # "not_ready"
        /\ \A k \in 1..Len(warnings) : warnings[k].err.msg # "not_ready"
        /\ invoked # <<>> => invoked[1] = "reqapi"
        /\ pc = "smart_http" => dl.browser = "skipped"

\* C10 witness: without the browser a scan found links and a file of the
\* batch was fetched by the hardened GET
C10_Witness ==
    /\ app = "app2"
    /\ ~PLAYWRIGHT_READY
    /\ scan_results # <<>>
    /\ ret.kind = "bytes"
    /\ ret.dl.browser = "skipped"
    /\ ret.dl.uas # <<>>

\* the names of the entries written before the k-th
OutNames(k) == {retval[j].name : j \in 1..(k - 1)}

\* the first name among base_2, base_3, ... that is not in names
FirstUnused(base, names) ==
    LET m == CHOOSE m \in 2..(MaxFiles + 2) :
                 /\ ReSubPdf(base, m) \notin names
                 /\ \A j \in 2..(m - 1) : ReSubPdf(base, j) \in names
    IN  ReSubPdf(base, m)

\* one entry per input pair, under pairwise distinct names, each with the
\* bytes of its pair
ZipEntriesKept ==
    /\ Len(retval) = Len(args)
    /\ \A j, k \in 1..Len(retval) : j # k => retval[j].name # retval[k].name
    /\ \A k \in 1..Len(retval) : retval[k].data = args[k].data

\* C11: make_zip writes one entry per input pair under pairwise distinct
\* names, each with its pair's bytes; the first pair that carries a name is
\* stored under it, and a later pair carrying the same name x.pdf is stored
\* under the first unused name among x_2.pdf, x_3.pdf, ...
C11_CollisionResolution ==
    (callee = "make_zip" /\ returned) =>
        /\ ZipEntriesKept
        /\ \A k \in 1..Len(args) :
              IF \A j \in 1..(k - 1) : args[j].name # args[k].name
              THEN retval[k].name = args[k].name
              ELSE retval[k].name = FirstUnused(args[k].name, OutNames(k))

\* C11 as amended: one entry per input pair under pairwise distinct names,
\* each with its pair's bytes; a pair whose name is not yet an entry of the
\* archive is stored under it, and a pair whose name x.pdf is already an
\* entry is stored under the first unused name among x_2.pdf, x_3.pdf, ...
C11_CollisionResolutionAmended ==
    (callee = "make_zip" /\ returned) =>
        /\ ZipEntriesKept
        /\ \A k \in 1..Len(args) :
              IF args[k].name \notin OutNames(k)
              THEN retval[k].name = args[k].name
              ELSE retval[k].name = FirstUnused(args[k].name, OutNames(k))

\* C11 witness: x.pdf, x.pdf, x_2.pdf are stored as x.pdf, x_2.pdf, x_2_2.pdf
C11_Witness ==
    /\ callee = "make_zip"
    /\ returned
    /\ SeqOf(args, NameOf) = <<<<"x", ".pdf">>, <<"x", ".pdf">>, <<"x", "_", "2", ".pdf">>>>
    /\ SeqOf(retval, NameOf)
         = <<<<"x", ".pdf">>, <<"x", "_", "2", ".pdf">>, <<"x", "_", "2", "_", "2", ".pdf">>>>

\* the link extraction returned a list
LinksReturned == callee = "links" /\ returned /\ ~retval.raised

\* the PDF hrefs of the anchors of the page, in document order
AnchorUrls(page) == SeqOf(PdfAnchors(page.anchors), UrlOf)

\* the PDF URLs the extraction finds in the page, in the order in which it
\* meets them: those of the anchors, or, in app2.py when the structured
\* parse fails or finds none, the matches of the URL pattern in the raw text
Discovered(page) ==
    IF app = "app2" /\ ~(page.dom_ok /\ AnchorUrls(page) # <<>>) THEN page.text_urls
    ELSE AnchorUrls(page)

\* the place of the first occurrence of x in s
FirstIndex(s, x) == CHOOSE n \in 1..Len(s) : s[n] = x /\ \A m \in 1..(n - 1) : s[m] # x

\* C12: the returned list holds every distinct PDF URL found in the page
\* exactly once, URLs that differ only in case being distinct, and a URL
\* found in anchors carries the text of the first anchor that points to it.
C12_LinkDedup ==
    LinksReturned =>
        LET L == retval.links
            found == Discovered(args)
            pdfs == PdfAnchors(args.anchors)
        IN  /\ \A j, k \in 1..Len(L) : j # k => L[j].url # L[k].url
            /\ {L[k].url : k \in 1..Len(L)} = Range(found)
            /\ (args.dom_ok /\ pdfs # <<>>) =>
                  \A k \in 1..Len(L) :
                      L[k].text = pdfs[FirstIndex(AnchorUrls(args), L[k].url)].text

\* C12 witness: of three anchors, two to one URL with different texts and
\* one to the same URL in another case, two links are returned, the first
\* with the first text
C12_Witness ==
    /\ LinksReturned
    /\ args.anchors = <<Anchor(1, "t"), Anchor(1, "u"), Anchor(6, "u")>>
    /\ retval.links = <<[url |-> 1, text |-> "t"], [url |-> 6, text |-> "u"]>>

\* C13: on every path of the link extraction, the URLs are returned in the
\* order in which each was first found in the page.
C13_DiscoveryOrder ==
    LinksReturned =>
        LET L == retval.links
            found == Discovered(args)
        IN  \A j, k \in 1..Len(L) :
                (j < k /\ L[j].url \in Range(found) /\ L[k].url \in Range(found))
                    => FirstIndex(found, L[j].url) < FirstIndex(found, L[k].url)

\* guess_is_english has returned
EnglishReturned == callee = "guess_is_english" /\ returned

\* s ends with sub
EndsWithStr(s, sub) ==
    Len(s) >= Len(sub) /\ SubSeq(s, Len(s) - Len(sub) + 1, Len(s)) = sub

\* the lowercased basename of the path of the argument href
ArgBasename == LowerStr(PathBasename(UrlPath(args.href)))

\* the lowercased combined text of the arguments
ArgText == LowerStr(args.href \o <<" ">> \o args.text)

\* C14: when neither the token rule nor the standalone-en rule applies,
\* guess_is_english returns true exactly when the lowercased basename of
\* the URL path ends with -en.pdf, _en.pdf, -eng.pdf or _eng.pdf; a marker
\* followed by further characters does not count.
C14_SuffixRule ==
    (/\ EnglishReturned
     /\ \A tok \in EN_TOKENS : ~Contains(ArgText, tok)
     /\ ~SearchEn(ArgText))
        => (retval <=> \E sfx \in EN_SUFFIXES : EndsWithStr(ArgBasename, sfx))

\* the letters of the lowercased texts
LETTERS == {"a", "b", "d", "e", "f", "g", "h", "l", "n", "o", "p", "r", "s", "t", "v", "x"}

\* the places where "en" starts in s
EnAt(s) == {k \in 1..(Len(s) - 1) : s[k] = "e" /\ s[k + 1] = "n"}

\* C15: a standalone en bounded on both sides by a parenthesis, a bracket
\* or whitespace in the lowercased combined text makes guess_is_english
\* return true; when every en is part of a longer word and there is no
\* suffix marker and no /en/, lang=en, language=en, locale=en or english,
\* it returns false.
C15_WholeTokenBoundary ==
    EnglishReturned =>
        /\ (\E k \in EnAt(ArgText) :
                /\ k > 1 /\ ArgText[k - 1] \in {"(", "[", " "}
                /\ k + 2 <= Len(ArgText) /\ ArgText[k + 2] \in {")", "]", " "})
              => retval = TRUE
        /\ (/\ \A k \in EnAt(ArgText) :
                  \/ k > 1 /\ ArgText[k - 1] \in LETTERS
                  \/ k + 2 <= Len(ArgText) /\ ArgText[k + 2] \in LETTERS
             /\ \A sfx \in EN_SUFFIXES : ~Contains(ArgBasename, sfx)
             /\ \A tok \in EN_TOKENS : ~Contains(ArgText, tok))
              => retval = FALSE

\* C15 witness: doc.pdf with the text "Report (EN)" is English
C15_Witness ==
    /\ EnglishReturned
    /\ args.href = HREF_HOST \o HREF_STEM \o <<".", "p", "d", "f">>
    /\ args.text = <<"R", "e", "p", "o", "r", "t", " ", "(", "E", "N", ")">>
    /\ retval = TRUE

\* a download call is running
Downloading == pc \in {"download", "smart", "smart_http"}

\* C16: every request for a file's bytes is sent to the PDF URL itself;
\* none is sent to the mirror service.
C16_MirrorOnlyForScan ==
    /\ \A r \in dl.sent \cup ret.dl.sent : r.host = "site"
    /\ \A r \in ret.dl.sent : r.url = ret.url
    /\ Downloading => \A r \in dl.sent : r.url = to_download[i].url

\* C16 witness: in app2.py without the browser a download gave up after
\* its three hardened GETs, all sent to the PDF URL
C16_Witness ==
    /\ app = "app2"
    /\ ret.kind = "raise"
    /\ ret.err.msg = "Download blocked or not a PDF"
    /\ Len(ret.dl.uas) = SMART_TRIES
    /\ ret.dl.sent = {[host |-> "site", url |-> ret.url]}

\* the hardened GET of download d was answered, and the answer was
\* accepted exactly when the claim says so
AcceptedAsStated(d) ==
    (d.browser = "skipped" /\ d.request \in {"ok", "rejected"}) =>
        (d.request = "ok" <=>
            /\ d.resp.ok
            /\ CtypeAccepted(d.resp.ctype) \/ d.resp.len > BODY_THRESHOLD)

\* C17: the hardened GET of download_pdf_smart accepts a response exactly
\* when its status is 200 and its content-type is PDF, octet-stream or
\* unset, or its body is longer than the byte threshold.
C17_HardenedAcceptance ==
    app = "app2" => AcceptedAsStated(dl) /\ AcceptedAsStated(ret.dl)

\* C18: when a click-simulated download is over, whether it returned or
\* raised, the temporary directory it made is gone.
C18_TempCleanup == dl.tmp # "left" /\ ret.dl.tmp # "left"

\* detect_year has returned
YearReturned == callee = "detect_year" /\ returned

\* the sources of the call in priority order
ArgSources == <<args.first_pages_text, args.filename, args.full_text>>

\* C19: detect_year returns the match of the first source, in the order
\* first-pages text, filename, full text, that holds any year: the first
\* range of that source if it has one, else its first single year, whatever
\* the lower-priority sources hold; it returns nothing when no source holds
\* a year.
C19_YearSourcePriority ==
    YearReturned =>
        LET holds == {k \in 1..3 : \E n \in 1..Len(ArgSources[k]) : ArgSources[k][n] \in YEAR_TOKENS}
        IN  IF holds = {} THEN retval.kind = "none"
            ELSE LET src == ArgSources[Min(holds)]
                 IN  IF RangesAt(src) # {}
                     THEN /\ retval.kind = "range"
                          /\ \E k \in RangesAt(src) :
                                /\ retval.y1 = src[k] /\ retval.y2 = src[k + 2]
                                /\ \A j \in RangesAt(src) : k <= j
                     ELSE /\ retval.kind = "single"
                          /\ \E k \in 1..Len(src) :
                                /\ retval.y1 = src[k]
                                /\ \A j \in 1..(k - 1) : src[j] \notin YEAR_TOKENS

\* C19 witness: first pages "Draft CPD 2019", filename
\* "report_2020-2022.pdf", full text "2021": the result is 2019
C19_Witness ==
    /\ YearReturned
    /\ args.first_pages_text = <<"Draft", "CPD", "2019">>
    /\ args.filename = <<"report", "_", "2020", "-", "2022", ".pdf">>
    /\ args.full_text = <<"2021">>
    /\ retval = [kind |-> "single", y1 |-> "2019", y2 |-> ""]

\* normalize has returned
NormalizeReturned == callee = "normalize" /\ returned

\* C20: normalize(normalize(x)) = normalize(x), and two texts that differ
\* only in case, accents or in which of hyphen, underscore and space
\* separates their words normalize to the same text.
C20_NormalizeIdempotent ==
    NormalizeReturned => retval.xx = retval.x /\ retval.y = retval.x

\* C20 witness: "C-o^" and "c o" both normalize to "c o"
C20_Witness ==
    /\ NormalizeReturned
    /\ args.x = <<"C", "-", "o^">>
    /\ args.y = <<"c", " ", "o">>
    /\ retval.x = <<"c", " ", "o">>
    /\ retval.y = <<"c", " ", "o">>

\* the download d went through a browser session
ViaBrowser(d) == app = "app" \/ (app = "app2" /\ d.browser \in {"ok", "failed"})

\* in the last attempt of download d the in-context GET came first, was
\* accepted only as stated, and the click followed exactly when it was not
SubPathsOrdered(d) ==
    ViaBrowser(d) =>
        /\ d.click # "none" => d.request # "none"
        /\ d.request = "ok" =>
              /\ d.resp.kind = "resp" /\ d.resp.ok
              /\ CtypeAccepted(d.resp.ctype) /\ d.resp.len > 0
        /\ d.click # "none" <=> d.request \in {"raised", "rejected"}

\* C21: in every attempt of a download through the browser, the in-context
\* GET is tried first and accepted only if the response is OK, non-empty and
\* of content-type PDF, octet-stream or unset; the click-simulated download
\* is attempted exactly when the GET raised or was rejected.
C21_SubPathOrdering == SubPathsOrdered(dl) /\ SubPathsOrdered(ret.dl)

\* the places of the event e in the sequence ev
Places(ev, e) == {k \in 1..Len(ev) : ev[k] = e}

\* in the events of download d: at most max_attempts GETs, and a delay
\* between any two of them
AttemptsBounded(d) ==
    /\ Cardinality(Places(d.events, "get")) <= MAX_ATTEMPTS
    /\ \A j, k \in Places(d.events, "get") :
          j < k => \E m \in Places(d.events, "sleep") : j < m /\ m < k

\* C22: download_pdf makes at most max_attempts attempts, one after the
\* other, with a jitter delay between a failed attempt and the next; it
\* returns the bytes of the first attempt that yields data and makes no
\* request after it; it gives up only after max_attempts attempts.
C22_BoundedRetry ==
    app \in {"app", "app1"} =>
        /\ AttemptsBounded(dl) /\ AttemptsBounded(ret.dl)
        /\ pc = "download" =>
              /\ Cardinality(Places(dl.events, "get")) = attempt
              /\ attempt > 0 => dl.events[Len(dl.events)] = "sleep"
        /\ ret.kind = "bytes" =>
              /\ ret.data = Body(ret.url, ret.data.len)
              /\ Cardinality(Places(ret.dl.events, "get")) = ret.attempts
              /\ ret.dl.events[Len(ret.dl.events)] \in {"get", "click"}
              /\ (IF ret.dl.events[Len(ret.dl.events)] = "get"
                  THEN ret.dl.request ELSE ret.dl.click) = "ok"
        /\ ret.kind = "raise" =>
              Cardinality(Places(ret.dl.events, "get")) = MAX_ATTEMPTS

\* C22 witness: download_pdf of app1.py returned the bytes of its third
\* GET, each of the two failed GETs being followed by a delay
C22_Witness ==
    /\ app = "app1"
    /\ ret.kind = "bytes"
    /\ ret.attempts = MAX_ATTEMPTS
    /\ ret.dl.events = <<"get", "sleep", "get", "sleep", "get">>

\* the places of the entries of a kind in the log of fetch_html_hardened
HPlaces(kind) == {k \in 1..Len(hardened_log) : hardened_log[k].kind = kind}

\* fetch_html_hardened used up its attempts
HardenedExhausted ==
    /\ Cardinality(HPlaces("get")) = HARDENED_TRIES
    /\ hardened_log[Len(hardened_log)].kind = "sleep"

\* C23: fetch_html_hardened issues at most `tries` real requests, the k-th
\* (from 0) with user-agent UA_POOL[k mod |UA_POOL|]; a failed request is
\* followed by a delay, and the delays strictly increase; the request that
\* gets status 200 and a body above the size threshold is the last thing
\* the function does; once the attempts are used up it returns nothing and
\* the scan goes on to the next strategy.
C23_HardenedScanRetry ==
    app = "app2" =>
        /\ Cardinality(HPlaces("get")) <= HARDENED_TRIES
        /\ \A p \in HPlaces("get") :
              /\ hardened_log[p].n = Cardinality({q \in HPlaces("get") : q < p}) % UA_POOL_LEN
              /\ p < Len(hardened_log) => hardened_log[p + 1].kind = "sleep"
        /\ \A p, q \in HPlaces("sleep") : p < q => hardened_log[p].n < hardened_log[q].n
        /\ (ScanEnded /\ ui.src = "hardened") =>
              /\ hardened_log[Len(hardened_log)].kind = "get"
              /\ ui.html \in PAGES
        /\ (hardened_log # <<>> /\ HardenedExhausted) =>
              /\ pc = "mirror" \/ "mirror" \in Range(invoked)
              /\ ScanEnded => ui.src # "hardened" /\ ui.err.msg \in {"", "All fetch strategies failed"}

\* C23 witness: the third real request got the page, after two failed ones
\* with user-agents 0 and 1 and delays of 0.7 s and 1.2 s
C23_Witness ==
    /\ ScanEnded
    /\ ui.src = "hardened"
    /\ hardened_log = WarmUps({}) \o <<HEvent("get", "page", 0), HEvent("sleep", "", 7)>>
                       \o WarmUps({}) \o <<HEvent("get", "page", 1), HEvent("sleep", "", 12)>>
                       \o WarmUps({}) \o <<HEvent("get", "page", 2)>>

\* every real request of fetch_html_hardened comes right after the
\* warm-up GETs to the root, the sub-path and the full path, in that order
WarmedScan ==
    \A p \in HPlaces("get") :
        /\ p > Len(WARM_PATHS)
        /\ \A k \in 1..Len(WARM_PATHS) :
              hardened_log[p - Len(WARM_PATHS) + k - 1] = HEvent("warm", WARM_PATHS[k], 0)

\* every hardened GET of download d comes right after three warm-up GETs
WarmedFetch(d) ==
    d.browser = "skipped" =>
        \A p \in Places(d.events, "get") :
            /\ p > Len(WARM_PATHS)
            /\ \A k \in 1..Len(WARM_PATHS) : d.events[p - k] = "warm"

\* C24: every real request of the Hardened Direct HTTP strategy, in the
\* scan and in the file fetch, is preceded by the warm-up GETs to root,
\* sub-path and full path in that order, whichever of them fail.
C24_WarmUpPrecedes ==
    app = "app2" => WarmedScan /\ WarmedFetch(dl) /\ WarmedFetch(ret.dl)

\* C25: parse_pdf_links never raises; when the structured parse fails (or
\* finds no PDF anchor) it returns the PDF URLs matched in the raw text,
\* each once and each with empty anchor text.
C25_PatternFallback ==
    (app = "app2" /\ callee = "links" /\ returned) =>
        /\ ~retval.raised
        /\ ~(args.dom_ok /\ PdfAnchors(args.anchors) # <<>>) =>
              LET L == retval.links
              IN  /\ {L[k].url : k \in 1..Len(L)} = Range(args.text_urls)
                  /\ \A j, k \in 1..Len(L) : j # k => L[j].url # L[k].url
                  /\ \A k \in 1..Len(L) : L[k].text = ""

\* C25 witness: the parser rejects a page whose raw text holds one PDF URL
\* twice; the URL is returned once, with empty anchor text
C25_Witness ==
    /\ app = "app2"
    /\ callee = "links"
    /\ returned
    /\ ~args.dom_ok
    /\ args.anchors = <<Anchor(1, "t")>>
    /\ args.text_urls = <<2, 2>>
    /\ retval.links = <<[url |-> 2, text |-> ""]>>

\* C26: make_zip returns on every list of (filename, bytes) pairs, also
\* when a colliding file name does not end in .pdf.
C26_MakeZipTerminates == <>(callee = "make_zip" => returned)

\* whether strategy s of the running scan yields a payload
Yields(s) == net[s]

\* C27: in a scan of app2.py a strategy is called only when every strategy
\* called before it returned no payload; a scan that succeeds stores the
\* links parsed from the payload of the last strategy it called, even when
\* there are none.
C27_CommitToFirstPayload ==
    app = "app2" =>
        /\ \A k \in 1..Len(invoked) : \A j \in 1..(k - 1) : ~Yields(invoked[j])
        /\ (ScanEnded /\ ui.result = "success") =>
              /\ invoked # <<>>
              /\ ui.src = invoked[Len(invoked)]
              /\ Yields(ui.src)
              /\ scan_results = parse_pdf_links(ui.html)

\* C27 witness: the request context returned a payload without any PDF
\* link; the scan ended with an empty list although the hardened HTTP
\* strategy would have got a payload
C27_Witness ==
    /\ app = "app2"
    /\ ScanEnded
    /\ ui.result = "success"
    /\ ui.src = "reqapi"
    /\ scan_results = <<>>
    /\ net.hardened
    /\ invoked = <<"reqapi">>

\* this step ends a scan
ScanEnds ==
    /\ pc \in {"idle", "reqapi", "hardened", "mirror"}
    /\ pc' = "idle"
    /\ ui'.op = "scan"

\* the links the extraction of the running variant finds in a payload
LinksOf(html) == IF app = "app2" THEN parse_pdf_links(html) ELSE links_from_html(html).links

\* C28: the stored scan results change only when a scan succeeds, and then
\* to that scan's result; a scan that raises reports an error and leaves
\* them as they were.
C28_FailedScanKeepsResults ==
    [][/\ scan_results' # scan_results => (ScanEnds /\ ui'.result = "success")
       /\ (ScanEnds /\ ui'.result = "success") => scan_results' = LinksOf(ui'.html)
       /\ (ScanEnds /\ ui'.result # "success") =>
              /\ ui'.result = "error"
              /\ ui'.err # NoErr
              /\ scan_results' = scan_results]_vars

\* C28 witness: a scan failed after an earlier one had found links, and
\* the links are still stored
C28_Witness ==
    /\ ScanEnded
    /\ ui.result = "error"
    /\ scan_results # <<>>

====
